---- MODULE Spec2Model ----
(***************************************************************************)
(* A model of the weatherlogging repository: the MySQL-backed store        *)
(* (database.py), the grid resolver and analysis script (data_analysis.py),*)
(* the ingestion script (weatherlogging.py) and the two set-up scripts     *)
(* (fill_db_with_grid.py, create_station_coords.py).                       *)
(***************************************************************************)
EXTENDS Integers, Sequences, FiniteSets, TLC

(***************************************************************************)
(* Bounds of the model.                                                    *)
(***************************************************************************)
\* largest number of rows of a frame handed to the resolver
MaxRows == 2
\* grid and query coordinates of the resolver range over 0..MaxCoord
MaxCoord == 2

\* grid-point ids of the store range over 0..MaxId
MaxId == 1
\* largest number of rows of a DataFrame handed to a batched insert
MaxBatch == 2
\* largest number of rows the data table is let grow to
MaxData == 2
\* the most rows of the frame create_graph is called on
MaxPoints == 3

VARIABLES
    \* data_analysis.get_nearest_id
    frame,      \* the DataFrame `coords` the resolver is called on (it is mutated)
    query,      \* <<lat_input, lon_input>> of the last call, <<>> before one
    result,     \* what the last call returned
    \* database.Database and the MySQL session behind it
    conn,       \* "none" before Database(...), then "open", "closed" after close()
    coordsTbl,  \* the committed rows of table coords
    dataTbl,    \* the committed rows of table data, in insertion order
    tx,         \* the rows the session has inserted and not yet committed
    call,       \* the last call of a Database method: its name and the values
                \* it handed to cursor.execute / executemany
    outcome,    \* "ok", or the mysql.connector error the call raised
    ret,        \* the DataFrame the call returned (<<>> when it returns None)
    \* a run of one of the scripts
    script,     \* the script that runs
    pc,         \* where the run is
    idx,        \* the row a loop over a frame is at, from 1
    cycle_time, \* weatherlogging: `time`, the hour of the collection cycle
    res,        \* weatherlogging: res['current'] of the last API response
    log,        \* what the run printed or drew, in order
    stationFile,    \* station_coords.csv
    gridFile,       \* grid.csv
    \* data_analysis.create_graph
    weatherdata,    \* the DataFrame create_graph is called on (it is mutated)
    plot,           \* the lines the last call drew, in order
    plotOutcome,    \* "none" before a call, then "ok" or the error it raised
    \* weatherlogging.load_config
    configFile,     \* config.json
    config          \* the module's global `config`

resolverVars == <<frame, query, result>>
storeVars == <<conn, coordsTbl, dataTbl, tx, call, outcome, ret>>
scriptVars == <<script, pc, idx, cycle_time, res, log, stationFile, gridFile>>
graphVars == <<weatherdata, plot, plotOutcome>>
configVars == <<configFile, config>>

(***************************************************************************)
(* Python values.  A cell of a DataFrame or a parameter of a query is a    *)
(* number, float('nan'), None, or a string.                                *)
(***************************************************************************)
Num(n) == [kind |-> "num", v |-> n]
NaN == [kind |-> "nan", v |-> 0]
NoneV == [kind |-> "none", v |-> 0]
\* the string 'NULL' and some other string
NullStr == [kind |-> "str", v |-> 0]
OtherStr == [kind |-> "str", v |-> 1]

IsNum(x) == x.kind = "num"

Abs(n) == IF n < 0 THEN 0 - n ELSE n

Range(s) == {s[i] : i \in DOMAIN s}

RECURSIVE SeqMin(_)
\* the least number of a non-empty sequence of integers
SeqMin(s) ==
    IF Len(s) = 1 THEN s[1]
    ELSE LET m == SeqMin(Tail(s)) IN IF s[1] < m THEN s[1] ELSE m

(***************************************************************************)
(* data_analysis.get_nearest_id                                            *)
(***************************************************************************)
NoResult == [kind |-> "unset"]
\* `return` without a value
ReturnsNone == [kind |-> "none"]
Match(id, lat, lon) == [kind |-> "match", id |-> id, lat |-> lat, lon |-> lon]

\* (series - x).abs(): NaN propagates
AbsDiff(cell, x) == IF IsNum(cell) THEN Num(Abs(cell.v - x)) ELSE NaN

\* a mutated resolver: columns the frame already has are not assigned again
WithDiffsStale(coords, lat_input, lon_input) ==
    [i \in DOMAIN coords |->
        coords[i] @@ [lat_diff |-> AbsDiff(coords[i].lat, lat_input),
                      lon_diff |-> AbsDiff(coords[i].lon, lon_input)]]

\* coords["lat_diff"] = ...; coords["lon_diff"] = ...: the columns are added
\* to (or overwritten in) the caller's frame
WithDiffs(coords, lat_input, lon_input) ==
    [i \in DOMAIN coords |->
        [lat_diff |-> AbsDiff(coords[i].lat, lat_input),
         lon_diff |-> AbsDiff(coords[i].lon, lon_input)] @@ coords[i]]

\* Series.min(): NaN cells are skipped; NaN when nothing is left
ColMin(cells) ==
    LET nums == SelectSeq(cells, IsNum)
    IN IF nums = <<>> THEN NaN
       ELSE Num(SeqMin([i \in DOMAIN nums |-> nums[i].v]))

\* coords[coords[col] == m]: a comparison with NaN is False
RowsAtLatMin(coords, m) ==
    LET F(r) == IsNum(r.lat_diff) /\ IsNum(m) /\ r.lat_diff.v = m.v
    IN SelectSeq(coords, F)

RowsAtLonMin(coords, m) ==
    LET F(r) == IsNum(r.lon_diff) /\ IsNum(m) /\ r.lon_diff.v = m.v
    IN SelectSeq(coords, F)

\* the merge of a mutated resolver: every row nearest in latitude, matched or not
MergeLeft(left, right) == left

RECURSIVE Merge(_, _)
\* pd.merge(left, right, how="inner"): joined on every common column, in the
\* order of the left rows, one output row per matching pair
Merge(left, right) ==
    IF left = <<>> THEN <<>>
    ELSE LET l == Head(left)
             Same(r) == r = l
         IN SelectSeq(right, Same) \o Merge(Tail(left), right)

\* a mutated resolver: the last row of the intersection, not the first
ResolvedIdLast(coords, lat_input, lon_input) ==
    LET df == WithDiffs(coords, lat_input, lon_input)
        min_lat_diff == ColMin([i \in DOMAIN df |-> df[i].lat_diff])
        min_lon_diff == ColMin([i \in DOMAIN df |-> df[i].lon_diff])
        nearest_rows == Merge(RowsAtLatMin(df, min_lat_diff),
                              RowsAtLonMin(df, min_lon_diff))
        last == Len(nearest_rows)
    IN IF nearest_rows # <<>>
       THEN Match(nearest_rows[last].id, nearest_rows[last].lat, nearest_rows[last].lon)
       ELSE ReturnsNone

\* the value get_nearest_id returns
ResolvedId(coords, lat_input, lon_input) ==
    LET df == WithDiffs(coords, lat_input, lon_input)
        min_lat_diff == ColMin([i \in DOMAIN df |-> df[i].lat_diff])
        min_lon_diff == ColMin([i \in DOMAIN df |-> df[i].lon_diff])
        nearest_lat_rows == RowsAtLatMin(df, min_lat_diff)
        nearest_lon_rows == RowsAtLonMin(df, min_lon_diff)
        nearest_rows == Merge(nearest_lat_rows, nearest_lon_rows)
    IN IF nearest_rows # <<>>
       THEN Match(nearest_rows[1].id, nearest_rows[1].lat, nearest_rows[1].lon)
       ELSE ReturnsNone

\* a call of the resolver on the frame
get_nearest_id(lat_input, lon_input) ==
    /\ result' = ResolvedId(frame, lat_input, lon_input)
    /\ frame' = WithDiffs(frame, lat_input, lon_input)
    /\ query' = <<lat_input, lon_input>>

(***************************************************************************)
(* The MySQL session behind database.Database.  The schema is that of the  *)
(* persisted tables: coords(id PRIMARY KEY, lat, lon) and data(id FOREIGN  *)
(* KEY -> coords.id, time, temp, humidity, clouds, rain, wind, wind_dir,   *)
(* gusts).  The session runs with autocommit off (the connector's          *)
(* default): a statement's rows are pending until commit(); a statement    *)
(* that fails changes nothing (the server undoes that statement), and the  *)
(* connector sends the parameter sets of executemany() on an INSERT as one *)
(* multi-row INSERT statement.                                             *)
(***************************************************************************)
EmptyTx == [coords |-> {}, data |-> <<>>]

NoCall == [op |-> "none", values |-> <<>>]

Ids == 0..MaxId

\* the times observations are stamped with, in minutes: two full hours
Times == {60, 120}

CoordsRow(id, lat, lon) == [id |-> id, lat |-> lat, lon |-> lon]

\* the numeric columns of table data, in the order of the INSERT
Fields == <<"temp", "humidity", "clouds", "rain", "wind", "wind_dir", "gusts">>

\* the parameter tuple of INSERT INTO data: f is the tuple of the seven
\* numeric values
DataRow(id, time, f) ==
    [id |-> id, time |-> time, temp |-> f[1], humidity |-> f[2], clouds |-> f[3],
     rain |-> f[4], wind |-> f[5], wind_dir |-> f[6], gusts |-> f[7]]

FieldsOf(r) == <<r.temp, r.humidity, r.clouds, r.rain, r.wind, r.wind_dir, r.gusts>>

\* the ids the session sees in table coords: committed and pending rows
VisibleIds(t) == {r.id : r \in coordsTbl \cup t.coords}

\* PRIMARY KEY (id) of coords: a statement is rejected when one of its rows
\* repeats an id of the table or of the statement
PrimaryKeyViolated(t, rows) ==
    \/ \E i \in DOMAIN rows : rows[i].id \in VisibleIds(t)
    \/ \E i, j \in DOMAIN rows : i < j /\ rows[i].id = rows[j].id

\* FOREIGN KEY (id) REFERENCES coords(id) of data
ForeignKeyViolated(t, rows) ==
    \E i \in DOMAIN rows : rows[i].id \notin VisibleIds(t)

\* a parameter a numeric column takes: a number, or None (stored as NULL)
Storable(x) == x.kind \in {"num", "none"}

\* a row with a string or a NaN in a numeric column is rejected (strict
\* SQL mode, the server's default)
BadValue(rows) ==
    \E i \in DOMAIN rows : \E k \in DOMAIN Fields : ~Storable(FieldsOf(rows[i])[k])

\* cursor.execute / executemany of INSERT INTO coords: the error raised
\* ("ok" for none) and the session's pending rows afterwards
ExecInsertCoords(t, rows) ==
    IF PrimaryKeyViolated(t, rows)
    THEN [err |-> "IntegrityError", tx |-> t]
    ELSE [err |-> "ok", tx |-> [t EXCEPT !.coords = @ \cup Range(rows)]]

RECURSIVE ExecInsertCoordsEach(_, _)
\* the rows of the batch executed one INSERT at a time: the rows before the
\* rejected one stay pending
ExecInsertCoordsEach(t, rows) ==
    IF rows = <<>> THEN [err |-> "ok", tx |-> t]
    ELSE LET one == ExecInsertCoords(t, <<Head(rows)>>)
         IN IF one.err # "ok" THEN one
            ELSE ExecInsertCoordsEach(one.tx, Tail(rows))

\* cursor.execute / executemany of INSERT INTO data
ExecInsertData(t, rows) ==
    IF BadValue(rows) THEN [err |-> "DataError", tx |-> t]
    ELSE IF ForeignKeyViolated(t, rows) THEN [err |-> "IntegrityError", tx |-> t]
    ELSE [err |-> "ok", tx |-> [t EXCEPT !.data = @ \o rows]]

\* self.mydb.commit(): the pending rows become durable
Commit(t) ==
    /\ coordsTbl' = coordsTbl \cup t.coords
    /\ dataTbl' = dataTbl \o t.data
    /\ tx' = EmptyTx

\* an exception leaves the method before commit()
Raise(err, t) ==
    /\ outcome' = err
    /\ ret' = <<>>
    /\ tx' = t
    /\ UNCHANGED <<coordsTbl, dataTbl>>

\* a write: execute the statement, then commit
Write(name, values, r) ==
    /\ call' = [op |-> name, values |-> values]
    /\ UNCHANGED conn
    /\ IF conn # "open" THEN Raise("OperationalError", tx)
       ELSE IF r.err # "ok" THEN Raise(r.err, r.tx)
       ELSE /\ Commit(r.tx)
            /\ outcome' = "ok"
            /\ ret' = <<>>

(***************************************************************************)
(* database.py                                                             *)
(***************************************************************************)
\* _to_none(value)
to_none(value) == IF value.kind = "nan" THEN NoneV ELSE value

\* a mutated add_coords: the row is executed and never committed
add_coords_no_commit(id_, lat, lon) ==
    LET values == <<CoordsRow(id_, lat, lon)>>
        r == ExecInsertCoords(tx, values)
    IN /\ call' = [op |-> "add_coords", values |-> values]
       /\ UNCHANGED conn
       /\ IF conn # "open" THEN Raise("OperationalError", tx)
          ELSE /\ outcome' = r.err
               /\ ret' = <<>>
               /\ tx' = r.tx
               /\ UNCHANGED <<coordsTbl, dataTbl>>

\* Database.add_coords(id_, lat, lon)
add_coords(id_, lat, lon) ==
    LET values == <<CoordsRow(id_, lat, lon)>>
    IN Write("add_coords", values, ExecInsertCoords(tx, values))

\* a mutated add_coords_from_df: one execute per row of the frame
add_coords_from_df_each(df) ==
    Write("add_coords_from_df", df, ExecInsertCoordsEach(tx, df))

\* Database.add_coords_from_df(df): df is the sequence of the frame's rows
add_coords_from_df(df) ==
    Write("add_coords_from_df", df, ExecInsertCoords(tx, df))

\* a mutated add_data: the error of the INSERT is caught and dropped
add_data_swallow(id_, time, f) ==
    LET values == <<DataRow(id_, time, [k \in DOMAIN f |-> to_none(f[k])])>>
        r == ExecInsertData(tx, values)
    IN /\ call' = [op |-> "add_data", values |-> values]
       /\ UNCHANGED conn
       /\ outcome' = "ok"
       /\ ret' = <<>>
       /\ IF conn = "open" /\ r.err = "ok" THEN Commit(r.tx)
          ELSE UNCHANGED <<coordsTbl, dataTbl, tx>>

\* Database.add_data(id_, time, temp, ..., gusts): f is the tuple of the seven
\* numeric arguments
add_data(id_, time, f) ==
    LET values == <<DataRow(id_, time, [k \in DOMAIN f |-> to_none(f[k])])>>
    IN Write("add_data", values, ExecInsertData(tx, values))

\* Database.add_data_from_df(df)
add_data_from_df(df) ==
    LET values == [i \in DOMAIN df |->
                     DataRow(df[i].id, df[i].time,
                             [k \in DOMAIN Fields |-> to_none(FieldsOf(df[i])[k])])]
    IN Write("add_data_from_df", values, ExecInsertData(tx, values))

\* a read: execute the SELECT, build the frame, commit
Read(name, values, df) ==
    /\ call' = [op |-> name, values |-> values]
    /\ UNCHANGED conn
    /\ IF conn # "open" THEN Raise("OperationalError", tx)
       ELSE /\ Commit(tx)
            /\ outcome' = "ok"
            /\ ret' = df

RECURSIVE SortById(_)
\* the rows of a set in the order of the primary key
SortById(rows) ==
    IF rows = {} THEN <<>>
    ELSE LET first == CHOOSE r \in rows : \A o \in rows : r.id =< o.id
         IN <<first>> \o SortById(rows \ {first})

\* pd.DataFrame(fetchall(), columns=["id", "lat", "lon"]) with lat and lon
\* through pd.to_numeric
CoordsFrame(rows) ==
    LET s == SortById(rows)
    IN [i \in DOMAIN s |-> [id |-> s[i].id, lat |-> Num(s[i].lat), lon |-> Num(s[i].lon)]]

\* pd.to_numeric(errors="coerce") of a fetched cell: NULL becomes NaN
to_numeric(x) == IF IsNum(x) THEN x ELSE NaN

\* _convert_data_to_df(query_data): temp, rain, wind and gusts go through
\* pd.to_numeric
convert_data_to_df(rows) ==
    [i \in DOMAIN rows |->
        [rows[i] EXCEPT !.temp = to_numeric(@), !.rain = to_numeric(@),
                        !.wind = to_numeric(@), !.gusts = to_numeric(@)]]

\* what the session's SELECTs see: committed and pending rows
SeenCoords == coordsTbl \cup tx.coords
SeenData == dataTbl \o tx.data

\* Database.get_coords()
get_coords == Read("get_coords", <<>>, CoordsFrame(SeenCoords))

\* a mutated get_coords_from_id: the SELECT has no WHERE clause
get_coords_from_id_all(id_) ==
    Read("get_coords_from_id", <<id_>>, CoordsFrame(SeenCoords))

\* Database.get_coords_from_id(id_)
get_coords_from_id(id_) ==
    Read("get_coords_from_id", <<id_>>, CoordsFrame({r \in SeenCoords : r.id = id_}))

\* Database.get_data()
get_data == Read("get_data", <<>>, convert_data_to_df(SeenData))

\* Database.get_data_from_id(id_)
get_data_from_id(id_) ==
    LET F(r) == r.id = id_
    IN Read("get_data_from_id", <<id_>>, convert_data_to_df(SelectSeq(SeenData, F)))

\* Database.get_data_from_datetime(time)
get_data_from_datetime(time) ==
    LET F(r) == r.time = time
    IN Read("get_data_from_datetime", <<time>>, convert_data_to_df(SelectSeq(SeenData, F)))

\* Database.get_data_between_datetimes(start, end)
get_data_between_datetimes(start, end) ==
    LET F(r) == r.time >= start /\ r.time =< end
    IN Read("get_data_between_datetimes", <<start, end>>,
            convert_data_to_df(SelectSeq(SeenData, F)))

\* Database.close(): the server drops what the session left uncommitted
close ==
    /\ call' = [op |-> "close", values |-> <<>>]
    /\ conn' = "closed"
    /\ tx' = EmptyTx
    /\ outcome' = "ok"
    /\ ret' = <<>>
    /\ UNCHANGED <<coordsTbl, dataTbl>>

(***************************************************************************)
(* The resolver on its own: any frame, any sequence of query points.       *)
(***************************************************************************)
Coord == 0..MaxCoord

\* the station a grid id is mapped to (the columns of station_coords.csv)
StationLat(id) == Num(id)
StationLon(id) == Num(id + 1)

\* a row of the merged frame: a grid point of the store, or a station id the
\* store does not know (the right join leaves lat and lon NaN)
FrameCells == {<<Num(a), Num(b)>> : a \in Coord, b \in Coord} \cup {<<NaN, NaN>>}

FrameRow(id, cells) ==
    [id |-> id, lat |-> cells[1], lon |-> cells[2],
     lat_station |-> StationLat(id), lon_station |-> StationLon(id)]

\* the frame the resolver is first called on: up to MaxRows rows, the ids
\* counted from 0 as load_grid numbers them
ResolverInit ==
    /\ \E n \in 0..MaxRows : \E c \in [1..n -> FrameCells] :
          frame = [i \in 1..n |-> FrameRow(i - 1, c[i])]
    /\ query = <<>>
    /\ result = NoResult

Resolve ==
    /\ \E lat_input \in Coord, lon_input \in Coord :
          get_nearest_id(lat_input, lon_input)
    /\ UNCHANGED <<storeVars, scriptVars, graphVars, configVars>>

ResolverNext == Resolve

StoreIdle ==
    /\ conn = "none"
    /\ coordsTbl = {}
    /\ dataTbl = <<>>
    /\ tx = EmptyTx
    /\ call = NoCall
    /\ outcome = "ok"
    /\ ret = <<>>

(***************************************************************************)
(* The store on its own: sequences of calls on one Database object.  The   *)
(* callers' arguments are drawn from the sets below.                       *)
(***************************************************************************)
\* coordinates in range
\* a latitude and a longitude, in hundredths of a degree
ValidCoords == <<100, 200>>

\* coordinates a caller passes: in range, latitude out of range, longitude
\* out of range
CoordSamples == {ValidCoords, <<9100, 200>>, <<100, 18100>>}

\* the seven numeric values a caller passes: all numbers; rain NaN (an empty
\* cell of a DataFrame); rain the string 'NULL'
AllNumbers == [k \in DOMAIN Fields |-> Num(k)]
FieldSamples ==
    {AllNumbers, [AllNumbers EXCEPT ![4] = NaN], [AllNumbers EXCEPT ![4] = NullStr]}

\* ids a caller passes where a grid point is looked up: those of Ids and one
\* more
DataIds == 0..(MaxId + 1)

ResolverIdle ==
    /\ frame = <<>>
    /\ query = <<>>
    /\ result = NoResult

\* after Database(host, user, pw, db) on empty tables
StoreInit ==
    /\ conn = "open"
    /\ coordsTbl = {}
    /\ dataTbl = <<>>
    /\ tx = EmptyTx
    /\ call = NoCall
    /\ outcome = "ok"
    /\ ret = <<>>

AddCoordsOf(ids, samples) ==
    /\ \E id_ \in ids, c \in samples : add_coords(id_, c[1], c[2])
    /\ UNCHANGED <<resolverVars, scriptVars, graphVars, configVars>>

\* frames of up to maxBatch rows with consecutive ids
AddCoordsFromDfOf(ids, maxBatch, samples) ==
    /\ \E start \in ids, n \in 0..maxBatch :
        /\ \A i \in 1..n : start + i - 1 \in ids
        /\ \E c \in [1..n -> samples] :
              add_coords_from_df([i \in 1..n |-> CoordsRow(start + i - 1, c[i][1], c[i][2])])
    /\ UNCHANGED <<resolverVars, scriptVars, graphVars, configVars>>

AddDataOf(ids, times, samples) ==
    /\ Len(dataTbl) < MaxData
    /\ \E id_ \in ids, time \in times, f \in samples : add_data(id_, time, f)
    /\ UNCHANGED <<resolverVars, scriptVars, graphVars, configVars>>

\* frames of up to maxBatch rows with consecutive ids, one hour and one
\* sample of values
AddDataFromDfOf(ids, maxBatch, times, samples) ==
    /\ \E start \in ids, n \in 0..maxBatch :
        /\ \A i \in 1..n : start + i - 1 \in ids
        /\ Len(dataTbl) + n =< MaxData
        /\ \E time \in times, f \in samples :
              add_data_from_df([i \in 1..n |-> DataRow(start + i - 1, time, f)])
    /\ UNCHANGED <<resolverVars, scriptVars, graphVars, configVars>>

GetCoords == get_coords /\ UNCHANGED <<resolverVars, scriptVars, graphVars, configVars>>

GetCoordsFromIdOf(ids) ==
    /\ \E id_ \in ids : get_coords_from_id(id_)
    /\ UNCHANGED <<resolverVars, scriptVars, graphVars, configVars>>

GetData == get_data /\ UNCHANGED <<resolverVars, scriptVars, graphVars, configVars>>

GetDataFromIdOf(ids) ==
    /\ \E id_ \in ids : get_data_from_id(id_)
    /\ UNCHANGED <<resolverVars, scriptVars, graphVars, configVars>>

GetDataFromDatetimeOf(times) ==
    /\ \E time \in times : get_data_from_datetime(time)
    /\ UNCHANGED <<resolverVars, scriptVars, graphVars, configVars>>

GetDataBetweenDatetimesOf(times) ==
    /\ \E start \in times, end \in times : get_data_between_datetimes(start, end)
    /\ UNCHANGED <<resolverVars, scriptVars, graphVars, configVars>>

Close == close /\ UNCHANGED <<resolverVars, scriptVars, graphVars, configVars>>

\* the coords table: any grid points, single and batched
AddCoords == AddCoordsOf(Ids, CoordSamples)
AddCoordsFromDf == AddCoordsFromDfOf(Ids, MaxBatch, CoordSamples)
GetCoordsFromId == GetCoordsFromIdOf(DataIds)

CoordsNext ==
    \/ AddCoords
    \/ AddCoordsFromDf
    \/ GetCoords
    \/ GetCoordsFromId
    \/ Close

\* the data table over grid points with coordinates in range
SeedCoords == AddCoordsOf(Ids, {ValidCoords})
AddData == AddDataOf(DataIds, {60}, FieldSamples)
AddDataFromDf == AddDataFromDfOf(DataIds, MaxBatch, {60}, FieldSamples)
GetDataFromId == GetDataFromIdOf(DataIds)
GetDataFromDatetime == GetDataFromDatetimeOf(Times)
GetDataBetweenDatetimes == GetDataBetweenDatetimesOf(Times)

DataNext ==
    \/ SeedCoords
    \/ AddData
    \/ AddDataFromDf
    \/ GetData
    \/ GetDataFromId
    \/ GetDataFromDatetime
    \/ GetDataBetweenDatetimes
    \/ Close

\* every method of Database, on the grid points 0 and 1
AnyAddCoords == AddCoordsOf({0}, {ValidCoords})
AnyAddCoordsFromDf == AddCoordsFromDfOf({0, 1}, 2, {ValidCoords})
AnyAddData == AddDataOf({0, 2}, {60}, {AllNumbers})
AnyAddDataFromDf == AddDataFromDfOf({0, 1}, 2, {60}, {AllNumbers})
AnyGetCoordsFromId == GetCoordsFromIdOf({0})
AnyGetDataFromId == GetDataFromIdOf({0})
AnyGetDataFromDatetime == GetDataFromDatetimeOf({60})
AnyGetDataBetweenDatetimes == GetDataBetweenDatetimesOf({60})

StoreNext ==
    \/ AnyAddCoords
    \/ AnyAddCoordsFromDf
    \/ AnyAddData
    \/ AnyAddDataFromDf
    \/ GetCoords
    \/ AnyGetCoordsFromId
    \/ GetData
    \/ AnyGetDataFromId
    \/ AnyGetDataFromDatetime
    \/ AnyGetDataBetweenDatetimes
    \/ Close

(***************************************************************************)
(* data_analysis.create_graph on its own.                                  *)
(***************************************************************************)
\* create_graph was not called
GraphIdle ==
    /\ weatherdata = <<>>
    /\ plot = <<>>
    /\ plotOutcome = "none"

\* a fraction n / d
Ratio(n, d) == [kind |-> "ratio", n |-> n, d |-> d]

RECURSIVE Sort(_)
\* a sequence of integers in ascending order
Sort(s) ==
    IF s = <<>> THEN <<>>
    ELSE LET m == SeqMin(s)
             k == CHOOSE k \in DOMAIN s : s[k] = m /\ \A j \in 1..(k - 1) : s[j] # m
         IN <<m>> \o Sort(SubSeq(s, 1, k - 1) \o SubSeq(s, k + 1, Len(s)))

RECURSIVE Sum(_)
Sum(s) == IF s = <<>> THEN 0 ELSE s[1] + Sum(Tail(s))

\* weatherdata[col]
Column(df, col) == [i \in DOMAIN df |-> df[i][col]]

\* the numbers of a column: pandas skips NaN in quantile, mean and median
NumbersOf(cells) ==
    LET nums == SelectSeq(cells, IsNum)
    IN [i \in DOMAIN nums |-> nums[i].v]

\* the quantile create_graph asks for: .99999
QuantileNum == 99999
QuantileDen == 100000

\* Series.quantile(.99999): linear interpolation between the two order
\* statistics around position (n - 1) * q; NaN for a series without numbers
Quantile(cells) ==
    LET xs == Sort(NumbersOf(cells))
        n == Len(xs)
        pos == (n - 1) * QuantileNum
        lo == pos \div QuantileDen
        fr == pos % QuantileDen
    IN IF n = 0 THEN NaN
       ELSE Ratio(xs[lo + 1] * QuantileDen
                    + (IF fr = 0 THEN 0 ELSE (xs[lo + 2] - xs[lo + 1]) * fr),
                  QuantileDen)

\* cell <= quantile: False when either side is NaN
LessEq(cell, q) == IsNum(cell) /\ q.kind = "ratio" /\ cell.v * q.d =< q.n

\* Series.where(cond): the cells where cond is False become NaN
Where(cells, q) ==
    [i \in DOMAIN cells |-> IF LessEq(cells[i], q) THEN cells[i] ELSE NaN]

\* a mutated filter: the rows above the quantile are dropped from the frame
WithRainQuantileDropped(df) ==
    LET quantile == Quantile(Column(df, "rain"))
        F(r) == LessEq(r.rain, quantile)
        kept == SelectSeq(df, F)
    IN [i \in DOMAIN kept |-> [rain_quantile |-> kept[i].rain] @@ kept[i]]

\* quantile = ...; weatherdata["rain_quantile"] = weatherdata["rain"].where(...)
WithRainQuantile(df) ==
    LET quantile == Quantile(Column(df, "rain"))
        kept == Where(Column(df, "rain"), quantile)
    IN [i \in DOMAIN df |-> [rain_quantile |-> kept[i]] @@ df[i]]

\* the bin of resample(rule) a timestamp falls in.  Timestamps count the days
\* from Monday, 1 January: "W" bins end on Sundays, "M" bins at the ends of
\* months (January has 31 days)
BinOf(rule, time) ==
    IF rule = "W" THEN time \div 7
    ELSE IF time < 31 THEN 0 ELSE 1

\* Series.mean(): NaN for an empty bin
Mean(cells) ==
    LET xs == NumbersOf(cells)
    IN IF xs = <<>> THEN NaN ELSE Ratio(Sum(xs), Len(xs))

\* Series.median(): the middle number, or the mean of the two middle ones
Median(cells) ==
    LET xs == Sort(NumbersOf(cells))
        n == Len(xs)
    IN IF n = 0 THEN NaN
       ELSE IF n % 2 = 1 THEN Ratio(xs[(n + 1) \div 2], 1)
       ELSE Ratio(xs[n \div 2] + xs[n \div 2 + 1], 2)

\* the cells of a column whose rows fall in a bin
CellsIn(df, col, rule, bin) ==
    LET F(r) == BinOf(rule, r.time) = bin
    IN Column(SelectSeq(df, F), col)

\* weatherdata.resample(rule).median() / .mean() [col]: one point per bin from
\* the first row's bin to the last row's
Resample(df, col, rule, how) ==
    LET first == BinOf(rule, df[1].time)
        last == BinOf(rule, df[Len(df)].time)
    IN [k \in 1..(last - first + 1) |->
          [x |-> first + k - 1,
           y |-> IF how = "median"
                 THEN Median(CellsIn(df, col, rule, first + k - 1))
                 ELSE Mean(CellsIn(df, col, rule, first + k - 1))]]

\* the columns create_graph is asked for here; any other name is invalid
Sources == {"rain", "wind"}

colors == <<"red", "orange", "purple", "pink">>

\* plt.plot(x, y, ..., label=label)
Line(label, color, points) == [label |-> label, color |-> color, points |-> points]

\* the aggregate lines in the order create_graph draws them
Aggregates(median_w, median_m, mean_w, mean_m) ==
    LET F(a) == a.on
    IN SelectSeq(<<[on |-> median_w, label |-> "Weekly Median", rule |-> "W", how |-> "median"],
                   [on |-> median_m, label |-> "Monthly Median", rule |-> "M", how |-> "median"],
                   [on |-> mean_w, label |-> "Weekly Mean", rule |-> "W", how |-> "mean"],
                   [on |-> mean_m, label |-> "Monthly Mean", rule |-> "M", how |-> "mean"]>>, F)

\* create_graph(weatherdata, id_, source, median_w, median_m, mean_w, mean_m).
\* resample() of a frame without rows raises TypeError: its index holds no
\* timestamps
create_graph(source, median_w, median_m, mean_w, mean_m) ==
    IF source \notin Sources
    THEN /\ plot' = <<>>
         /\ plotOutcome' = "ok"
         /\ UNCHANGED weatherdata
    ELSE LET df == IF source = "rain" THEN WithRainQuantile(weatherdata) ELSE weatherdata
             col == IF source = "rain" THEN "rain_quantile" ELSE source
             dots == Line(IF source = "rain" THEN "99,999% of Original Data"
                          ELSE "Original Data",
                          "default",
                          [i \in DOMAIN df |-> [x |-> df[i].time, y |-> df[i][col]]])
             wanted == Aggregates(median_w, median_m, mean_w, mean_m)
         IN /\ weatherdata' = df
            /\ IF wanted # <<>> /\ df = <<>>
               THEN /\ plot' = <<dots>>
                    /\ plotOutcome' = "TypeError"
               ELSE /\ plot' = <<dots>> \o
                         [k \in DOMAIN wanted |->
                             Line(wanted[k].label, colors[k],
                                  Resample(df, col, wanted[k].rule, wanted[k].how))]
                    /\ plotOutcome' = "ok"

\* the days of the rows, and the rain and wind cells, a frame is drawn from
Days == {0, 1, 7, 31}
RainSamples == {Num(2), Num(500), NaN}
WindSample == Num(3)

RECURSIVE Ascending(_)
\* a set of integers as an ascending sequence
Ascending(S) ==
    IF S = {} THEN <<>>
    ELSE LET m == CHOOSE m \in S : \A o \in S : m =< o
         IN <<m>> \o Ascending(S \ {m})

\* the frame main passes: the rows of one grid point, by time
GraphInit ==
    /\ \E T \in SUBSET Days : \E c \in [T -> RainSamples] :
          /\ Cardinality(T) =< MaxPoints
          /\ weatherdata = [i \in 1..Cardinality(T) |->
                               [time |-> Ascending(T)[i],
                                rain |-> c[Ascending(T)[i]],
                                wind |-> WindSample]]
    /\ plot = <<>>
    /\ plotOutcome = "none"

CreateGraph ==
    /\ \E source \in Sources \cup {"snow"} :
       \E median_w, median_m, mean_w, mean_m \in BOOLEAN :
          create_graph(source, median_w, median_m, mean_w, mean_m)
    /\ UNCHANGED <<resolverVars, storeVars, scriptVars, configVars>>

GraphNext == CreateGraph

(***************************************************************************)
(* The scripts.  Each run is one process: it ends by returning from its    *)
(* main block ("done"), by sys.exit ("exited") or by an exception nothing  *)
(* catches ("crashed").  Coordinates are in hundredths of a degree.        *)
(***************************************************************************)
Terminal == {"done", "exited", "crashed"}

\* sys.exit(message), sys.exit(1): the message goes to stderr and the process ends with
\* status 1
SysExit == Append(log, [ev |-> "exit", arg |-> 1])

\* main: lat = 52.52, lon = 13.40
QueryLat == 5252
QueryLon == 1340

\* grid points around the query point
GridSamples == {<<5200, 1500>>, <<5000, 1300>>, <<5300, 1300>>}

NoFile == [exists |-> FALSE, rows |-> <<>>]
File(rows) == [exists |-> TRUE, rows |-> rows]

\* a row of station_coords.csv
StationRow(id) ==
    [id |-> id, lat_station |-> StationLat(id), lon_station |-> StationLon(id)]

ScriptLocals == <<frame, query, result, idx, cycle_time, res>>
Files == <<stationFile, gridFile>>

(***************************************************************************)
(* weatherlogging.load_config and save_config.  config.json is missing, is *)
(* no JSON text, or holds a JSON value.                                    *)
(***************************************************************************)
ConfigKeys == {"API-key", "host", "db-user", "db-pw", "db"}

\* a JSON string and a JSON number as json.load returns them
StrV(text) == [type |-> "str", text |-> text]
IntV == [type |-> "int", text |-> "5"]

config_default ==
    [key \in ConfigKeys |->
        StrV(CASE key = "API-key" -> "1234abcd"
               [] key = "host" -> "localhost"
               [] key = "db-user" -> "user"
               [] key = "db-pw" -> "1234"
               [] key = "db" -> "database")]

\* JSON values: an object, an array of strings, a number
Object(fields) == [json |-> "object", fields |-> fields]
Array(items) == [json |-> "array", items |-> items]
Number == [json |-> "number"]

MissingConfig == [state |-> "missing"]
Unparseable == [state |-> "unparseable"]
Parsed(value) == [state |-> "parsed", value |-> value]

\* load_config was not called: the module's initial value of config
ConfigIdle ==
    /\ configFile = MissingConfig
    /\ config = Object(config_default)

\* a config the user filled in
RealConfig == [key \in ConfigKeys |-> StrV("real")]

\* what config.json may hold: a filled-in config; the placeholders; the
\* placeholders with a real API key; a config without "db"; one whose db-pw is
\* a number; the placeholders and a key more; a number; an empty array
ConfigSamples ==
    {MissingConfig, Unparseable,
     Parsed(Object(RealConfig)),
     Parsed(Object(config_default)),
     Parsed(Object([config_default EXCEPT !["API-key"] = StrV("real")])),
     Parsed(Object([key \in ConfigKeys \ {"db"} |-> RealConfig[key]])),
     Parsed(Object([RealConfig EXCEPT !["db-pw"] = IntV])),
     Parsed(Object([key \in ConfigKeys \cup {"port"} |->
                       IF key = "port" THEN IntV ELSE config_default[key]])),
     Parsed(Number),
     Parsed(Array({}))}

\* save_config(): json.dump(config, f)
save_config(cfg) == Parsed(cfg)

\* the for loop of load_config over config_default.items(): `key not in
\* config` raises TypeError on a number, `config[key]` raises TypeError on an
\* array that holds the key; else the flag missing_or_wrong
KeyCheck(value) ==
    CASE value.json = "number" -> "TypeError"
      [] value.json = "array" ->
            IF ConfigKeys \cap value.items # {} THEN "TypeError" ELSE "missing_or_wrong"
      [] value.json = "object" ->
            IF \E key \in ConfigKeys :
                  \/ key \notin DOMAIN value.fields
                  \/ value.fields[key].type # "str"
            THEN "missing_or_wrong" ELSE "ok"

\* load_config(), the first statement of the main block
LoadConfig ==
    /\ script = "weatherlogging"
    /\ pc = "load_config"
    /\ IF configFile.state # "parsed"
       THEN /\ config' = Object(config_default)
            /\ configFile' = save_config(config')
            /\ log' = SysExit
            /\ pc' = "exited"
       ELSE LET loaded == configFile.value
                checked == KeyCheck(loaded)
            IN CASE checked = "TypeError" ->
                      /\ config' = loaded
                      /\ pc' = "crashed"
                      /\ UNCHANGED <<configFile, log>>
                 [] checked = "missing_or_wrong" ->
                      /\ config' = Object(config_default)
                      /\ configFile' = save_config(config')
                      /\ log' = SysExit
                      /\ pc' = "exited"
                 [] checked = "ok" /\ loaded = Object(config_default) ->
                      /\ config' = loaded
                      /\ log' = SysExit
                      /\ pc' = "exited"
                      /\ UNCHANGED configFile
                 [] OTHER ->
                      /\ config' = loaded
                      /\ pc' = "connect"
                      /\ UNCHANGED <<configFile, log>>
    /\ UNCHANGED <<script, ScriptLocals, Files, graphVars, storeVars>>

\* db = Database(host, user, pw, db)
Connect ==
    /\ pc = "connect"
    /\ conn' = "open"
    /\ pc' = IF script = "fill_db_with_grid" THEN "load_grid" ELSE "get_coords"
    /\ UNCHANGED <<script, graphVars, configVars, ScriptLocals, Files, log>>
    /\ UNCHANGED <<coordsTbl, dataTbl, tx, call, outcome, ret>>

\* coords = db.get_coords()
ScriptGetCoords ==
    /\ pc = "get_coords"
    /\ get_coords
    /\ frame' = ret'
    /\ idx' = 1
    /\ pc' = CASE script = "weatherlogging" -> "time"
              [] script = "data_analysis" -> "load_station"
              [] OTHER -> "open_file"
    /\ UNCHANGED <<script, graphVars, configVars, query, result, cycle_time, res, Files, log>>

(***************************************************************************)
(* weatherlogging.py                                                       *)
(***************************************************************************)
\* a key of res['current'] that is missing
Absent == [kind |-> "absent", v |-> 0]

\* requests.get(url).json() raised
FetchFailed == <<>>

\* res['current'] of a response: complete; without precip_mm; without any key
\* (an error body); temp_c null; wind_kph a string
ApiSamples ==
    {AllNumbers,
     [AllNumbers EXCEPT ![4] = Absent],
     [k \in DOMAIN Fields |-> Absent],
     [AllNumbers EXCEPT ![1] = NoneV],
     [AllNumbers EXCEPT ![5] = OtherStr]}

\* get_data_from_api: the tuple it returns for a response
get_data_from_api(response) ==
    [k \in DOMAIN Fields |->
        IF response[k].kind = "absent" THEN NullStr ELSE response[k]]

\* datetime.now() of a run, in minutes: on the hour, within it, at the next
\* hour, just before the one after
NowSamples == {60, 95, 120, 179}

\* a mutated truncation: the time is now itself
HourOfNow(now) == now

\* datetime(now.year, now.month, now.day, now.hour): now without its minutes,
\* seconds and microseconds
HourOf(now) == (now \div 60) * 60

\* now = datetime.now(); time = datetime(now.year, now.month, now.day, now.hour)
IngestTime ==
    /\ script = "weatherlogging"
    /\ pc = "time"
    /\ \E now \in NowSamples : cycle_time' = HourOf(now)
    /\ pc' = "loop"
    /\ UNCHANGED <<script, graphVars, configVars, frame, query, result, idx, res, Files, log, storeVars>>

LogError(id) == Append(log, [ev |-> "error", arg |-> id])

\* a mutated loop body: no try/except around the fetch and the insert
IngestRowNoCatch ==
    /\ script = "weatherlogging"
    /\ pc = "loop"
    /\ idx =< Len(frame)
    /\ \E response \in ApiSamples \cup {FetchFailed} :
          /\ res' = response
          /\ IF response = FetchFailed
             THEN /\ pc' = "crashed"
                  /\ UNCHANGED storeVars
             ELSE /\ add_data(frame[idx].id, cycle_time, get_data_from_api(response))
                  /\ pc' = IF outcome' = "ok" THEN pc ELSE "crashed"
    /\ idx' = idx + 1
    /\ UNCHANGED <<script, graphVars, configVars, frame, query, result, cycle_time, Files, log>>

\* one pass of the loop body: fetch the row's observation and insert it; an
\* exception of either is printed and the loop goes on
IngestRow ==
    /\ script = "weatherlogging"
    /\ pc = "loop"
    /\ idx =< Len(frame)
    /\ \E response \in ApiSamples \cup {FetchFailed} :
          /\ res' = response
          /\ IF response = FetchFailed
             THEN /\ log' = LogError(frame[idx].id)
                  /\ UNCHANGED storeVars
             ELSE /\ add_data(frame[idx].id, cycle_time, get_data_from_api(response))
                  /\ log' = IF outcome' = "ok" THEN log ELSE LogError(frame[idx].id)
    /\ idx' = idx + 1
    /\ UNCHANGED <<script, graphVars, configVars, pc, frame, query, result, cycle_time, Files>>

\* db.close() after the loop
IngestClose ==
    /\ script = "weatherlogging"
    /\ pc = "loop"
    /\ idx > Len(frame)
    /\ close
    /\ pc' = "done"
    /\ UNCHANGED <<script, graphVars, configVars, ScriptLocals, Files, log>>

(***************************************************************************)
(* data_analysis.py                                                        *)
(***************************************************************************)
\* coords.merge(true_coords, how="right", on="id"): one row per station row,
\* lat and lon NaN where the store has no grid point of that id
MergeRight(coords, stations) ==
    [j \in DOMAIN stations |->
        LET hit == {k \in DOMAIN coords : coords[k].id = stations[j].id}
        IN IF hit = {}
           THEN [id |-> stations[j].id, lat |-> NaN, lon |-> NaN,
                 lat_station |-> stations[j].lat_station,
                 lon_station |-> stations[j].lon_station]
           ELSE LET k == CHOOSE k \in hit : TRUE
                IN [id |-> stations[j].id, lat |-> coords[k].lat, lon |-> coords[k].lon,
                    lat_station |-> stations[j].lat_station,
                    lon_station |-> stations[j].lon_station]]

\* a mutated load_station_coords: a missing file gives an empty station table
AnalysisLoadStationsEmpty ==
    /\ script = "data_analysis"
    /\ pc = "load_station"
    /\ frame' = MergeRight(frame, IF stationFile.exists THEN stationFile.rows ELSE <<>>)
    /\ pc' = "resolve"
    /\ UNCHANGED <<script, graphVars, configVars, query, result, idx, cycle_time, res, Files, log, storeVars>>

\* true_coords = load_station_coords(); coords = coords.merge(...)
AnalysisLoadStations ==
    /\ script = "data_analysis"
    /\ pc = "load_station"
    /\ IF stationFile.exists
       THEN /\ frame' = MergeRight(frame, stationFile.rows)
            /\ pc' = "resolve"
            /\ UNCHANGED log
       ELSE /\ pc' = "exited"
            /\ log' = SysExit
            /\ UNCHANGED frame
    /\ UNCHANGED <<script, graphVars, configVars, query, result, idx, cycle_time, res, Files, storeVars>>

\* nearest_id = get_nearest_id(coords, lat_input=lat, lon_input=lon)
AnalysisResolve ==
    /\ script = "data_analysis"
    /\ pc = "resolve"
    /\ get_nearest_id(QueryLat, QueryLon)
    /\ pc' = "query"
    /\ UNCHANGED <<script, graphVars, configVars, idx, cycle_time, res, Files, log, storeVars>>

\* weatherdata = db.get_data_from_id(nearest_id[0]): subscripting None
\* raises TypeError
AnalysisQuery ==
    /\ script = "data_analysis"
    /\ pc = "query"
    /\ IF result.kind = "match"
       THEN /\ get_data_from_id(result.id)
            /\ pc' = "map"
       ELSE /\ pc' = "crashed"
            /\ UNCHANGED storeVars
    /\ UNCHANGED <<script, graphVars, configVars, ScriptLocals, Files, log>>

\* create_map(coords, nearest_id=nearest_id, highlight_point=(lat, lon))
AnalysisMap ==
    /\ script = "data_analysis"
    /\ pc = "map"
    /\ log' = Append(log, [ev |-> "map", arg |-> result.id])
    /\ pc' = "graph"
    /\ idx' = 1
    /\ UNCHANGED <<script, graphVars, configVars, frame, query, result, cycle_time, res, Files, storeVars>>

\* the seven calls create_graph(weatherdata, id_=nearest_id[0], source=...)
AnalysisGraph ==
    /\ script = "data_analysis"
    /\ pc = "graph"
    /\ idx =< Len(Fields)
    /\ log' = Append(log, [ev |-> "graph", arg |-> idx])
    /\ idx' = idx + 1
    /\ UNCHANGED <<script, graphVars, configVars, pc, frame, query, result, cycle_time, res, Files, storeVars>>

\* db.close() at the end of main
AnalysisClose ==
    /\ script = "data_analysis"
    /\ pc = "graph"
    /\ idx > Len(Fields)
    /\ close
    /\ pc' = "done"
    /\ UNCHANGED <<script, graphVars, configVars, ScriptLocals, Files, log>>

(***************************************************************************)
(* fill_db_with_grid.py                                                    *)
(***************************************************************************)
\* load_grid(): the rows of grid.csv with id = index, or sys.exit
FillLoadGrid ==
    /\ script = "fill_db_with_grid"
    /\ pc = "load_grid"
    /\ IF gridFile.exists
       THEN /\ frame' = [k \in DOMAIN gridFile.rows |->
                           CoordsRow(k - 1, gridFile.rows[k][1], gridFile.rows[k][2])]
            /\ pc' = "insert"
            /\ UNCHANGED log
       ELSE /\ pc' = "exited"
            /\ log' = SysExit
            /\ UNCHANGED frame
    /\ UNCHANGED <<script, graphVars, configVars, query, result, idx, cycle_time, res, Files, storeVars>>

\* db.add_coords_from_df(grid, print_debug=True)
FillInsert ==
    /\ script = "fill_db_with_grid"
    /\ pc = "insert"
    /\ add_coords_from_df(frame)
    /\ pc' = IF outcome' = "ok" THEN "close" ELSE "crashed"
    /\ UNCHANGED <<script, graphVars, configVars, ScriptLocals, Files, log>>

\* db.close()
FillClose ==
    /\ script = "fill_db_with_grid"
    /\ pc = "close"
    /\ close
    /\ pc' = "done"
    /\ UNCHANGED <<script, graphVars, configVars, ScriptLocals, Files, log>>

(***************************************************************************)
(* create_station_coords.py                                                *)
(***************************************************************************)
\* with open("station_coords.csv", "w") as f: f.write(header)
StationOpenFile ==
    /\ script = "create_station_coords"
    /\ pc = "open_file"
    /\ stationFile' = File(<<>>)
    /\ pc' = "loop"
    /\ UNCHANGED <<script, graphVars, configVars, ScriptLocals, gridFile, log, storeVars>>

\* one pass of the loop: the response has a location (a line is written), has
\* none (a message is printed), or requests.get / res.json() raises
StationRowStep ==
    /\ script = "create_station_coords"
    /\ pc = "loop"
    /\ idx =< Len(frame)
    /\ \E answer \in {"location", "no location", "raise"} :
          /\ stationFile' = IF answer = "location"
                            THEN File(Append(stationFile.rows, StationRow(frame[idx].id)))
                            ELSE stationFile
          /\ log' = IF answer = "no location"
                    THEN Append(log, [ev |-> "failed", arg |-> frame[idx].id])
                    ELSE log
          /\ pc' = IF answer = "raise" THEN "crashed" ELSE pc
    /\ idx' = idx + 1
    /\ UNCHANGED <<script, graphVars, configVars, frame, query, result, cycle_time, res, gridFile, storeVars>>

\* main returns after the loop; it has no db.close()
StationEnd ==
    /\ script = "create_station_coords"
    /\ pc = "loop"
    /\ idx > Len(frame)
    /\ pc' = "done"
    /\ UNCHANGED <<script, graphVars, configVars, ScriptLocals, Files, log, storeVars>>

(***************************************************************************)
(* The runs of the four scripts, each against a store that holds some grid *)
(* points, with the files and the API's answers it may meet.               *)
(***************************************************************************)
Scripts ==
    {"weatherlogging", "data_analysis", "fill_db_with_grid", "create_station_coords"}

\* rows grid.csv may hold: a grid point in range, one out of range
GridFileSamples == {<<5200, 1500>>, <<9100, 1500>>}

\* the hours of earlier collection cycles, in minutes
EarlierTimes == {0}

ScriptsInit ==
    /\ script \in Scripts
    /\ IF script = "weatherlogging"
       THEN /\ pc = "load_config"
            /\ configFile \in ConfigSamples
            /\ config = Object(config_default)
       ELSE /\ pc = "connect"
            /\ ConfigIdle
    /\ conn = "none"
    /\ \E S \in SUBSET Ids : \E c \in [S -> GridSamples] :
          coordsTbl = {CoordsRow(id, c[id][1], c[id][2]) : id \in S}
    /\ IF script = "weatherlogging"
       THEN dataTbl \in {<<>>} \cup
               {<<DataRow(r.id, time, AllNumbers)>> : r \in coordsTbl, time \in EarlierTimes}
       ELSE dataTbl = <<>>
    /\ tx = EmptyTx
    /\ call = NoCall
    /\ outcome = "ok"
    /\ ret = <<>>
    /\ ResolverIdle
    /\ idx = 1
    /\ cycle_time = 0
    /\ res = FetchFailed
    /\ log = <<>>
    /\ GraphIdle
    /\ IF script = "data_analysis"
       THEN \/ stationFile = NoFile
            \/ \E n \in 0..(MaxId + 2) : stationFile = File([k \in 1..n |-> StationRow(k - 1)])
       ELSE stationFile = NoFile
    /\ IF script = "fill_db_with_grid"
       THEN \/ gridFile = NoFile
            \/ \E n \in 0..MaxBatch : \E c \in [1..n -> GridFileSamples] : gridFile = File(c)
       ELSE gridFile = NoFile

ScriptsNext ==
    \/ LoadConfig
    \/ Connect
    \/ ScriptGetCoords
    \/ IngestTime
    \/ IngestRow
    \/ IngestClose
    \/ AnalysisLoadStations
    \/ AnalysisResolve
    \/ AnalysisQuery
    \/ AnalysisMap
    \/ AnalysisGraph
    \/ AnalysisClose
    \/ FillLoadGrid
    \/ FillInsert
    \/ FillClose
    \/ StationOpenFile
    \/ StationRowStep
    \/ StationEnd

ScriptsIdle ==
    /\ script = "none"
    /\ pc = "done"
    /\ idx = 1
    /\ cycle_time = 0
    /\ res = FetchFailed
    /\ log = <<>>
    /\ stationFile = NoFile
    /\ gridFile = NoFile

vars == <<resolverVars, storeVars, scriptVars, graphVars, configVars>>

InitResolver == ResolverInit /\ StoreIdle /\ ScriptsIdle /\ GraphIdle /\ ConfigIdle

SpecResolver == InitResolver /\ [][ResolverNext]_vars

InitStore == ResolverIdle /\ StoreInit /\ ScriptsIdle /\ GraphIdle /\ ConfigIdle

SpecStore == InitStore /\ [][StoreNext]_vars

SpecCoords == InitStore /\ [][CoordsNext]_vars

SpecData == InitStore /\ [][DataNext]_vars

InitGraph == ResolverIdle /\ StoreIdle /\ ScriptsIdle /\ GraphInit /\ ConfigIdle

SpecGraph == InitGraph /\ [][GraphNext]_vars

\* a run goes on: every call a script makes returns or raises
SpecScripts == ScriptsInit /\ [][ScriptsNext]_vars /\ WF_vars(ScriptsNext)

(***************************************************************************)
(* Properties of the resolver, stated on the rows of the frame.            *)
(***************************************************************************)
Called == query # <<>>

LatDist(i) == Abs(frame[i].lat.v - query[1])
LonDist(i) == Abs(frame[i].lon.v - query[2])

\* row i attains the minimum latitude difference
InLatMin(i) ==
    /\ IsNum(frame[i].lat)
    /\ \A j \in DOMAIN frame : IsNum(frame[j].lat) => LatDist(i) =< LatDist(j)

\* row i attains the minimum longitude difference
InLonMin(i) ==
    /\ IsNum(frame[i].lon)
    /\ \A j \in DOMAIN frame : IsNum(frame[j].lon) => LonDist(i) =< LonDist(j)

InBoth(i) == InLatMin(i) /\ InLonMin(i)

RowResult(i) == Match(frame[i].id, frame[i].lat, frame[i].lon)

\* C1: after a call the frame holds each row's absolute latitude and longitude
\* difference; when some row attains both minima the call returns (id, lat, lon)
\* of the first such row in row order; it never returns a row outside either
\* minimum set.
C1_FirstOfIntersection ==
    Called =>
        /\ \A i \in DOMAIN frame :
              /\ IsNum(frame[i].lat) => frame[i].lat_diff = Num(LatDist(i))
              /\ IsNum(frame[i].lon) => frame[i].lon_diff = Num(LonDist(i))
        /\ \A i \in DOMAIN frame :
              (InBoth(i) /\ \A k \in 1..(i - 1) : ~InBoth(k)) => result = RowResult(i)
        /\ result.kind = "match" =>
              \E i \in DOMAIN frame : InBoth(i) /\ result = RowResult(i)

\* a call returned the first of two different grid points that both attain
\* both minima
C1_Witness ==
    /\ Called
    /\ \E i, j \in DOMAIN frame :
          /\ i < j /\ InBoth(i) /\ InBoth(j)
          /\ frame[i].lat # frame[j].lat
          /\ \A k \in 1..(i - 1) : ~InBoth(k)
          /\ result = RowResult(i)

\* C2: when no row attains both the minimum latitude difference and the
\* minimum longitude difference, the call returns None: no grid point, and
\* no error.
C2_NoMatchIsNone ==
    (Called /\ \A i \in DOMAIN frame : ~InBoth(i)) => result = ReturnsNone

\* the shape of the spec's example: one row is nearest in latitude, another
\* nearest in longitude, no row is both, and the call returned None
C2_Witness ==
    /\ Called
    /\ \E i, j \in DOMAIN frame : i # j /\ InLatMin(i) /\ InLonMin(j)
    /\ \A i \in DOMAIN frame : ~InBoth(i)
    /\ result = ReturnsNone

(***************************************************************************)
(* Properties of the store.                                                *)
(***************************************************************************)
StoredIds == {r.id : r \in coordsTbl}

\* lat in [-90, 90] and lon in [-180, 180], in hundredths of a degree
InRange(r) ==
    r.lat >= -9000 /\ r.lat =< 9000 /\ r.lon >= -18000 /\ r.lon =< 18000

CoordsInsert == call.op \in {"add_coords", "add_coords_from_df"}

\* C4: every stored grid point has lat in [-90, 90], lon in [-180, 180] and an
\* id of its own, and an insert of a grid point out of range fails with an
\* error.
C4_RangeAndIdEnforced ==
    /\ \A r \in coordsTbl : InRange(r)
    /\ \A r1, r2 \in coordsTbl : r1.id = r2.id => r1 = r2
    /\ (CoordsInsert /\ \E i \in DOMAIN call.values : ~InRange(call.values[i]))
          => outcome = "IntegrityError"

\* the part of C4 the store does enforce: a grid point whose id is already
\* stored was rejected and the stored row is the old one
C4_DuplicateRejected ==
    /\ call.op = "add_coords"
    /\ outcome = "IntegrityError"
    /\ \E r \in coordsTbl : r.id = call.values[1].id /\ r # call.values[1]

\* C5: the durable coords table changes only in a successful insert, and then
\* by all the rows of that call; a rejected call adds none of its rows, and no
\* later call (a read, which commits, or close) makes any of them durable.
C5_BatchAllOrNone ==
    [][/\ (outcome' # "ok") => coordsTbl' = coordsTbl
       /\ (coordsTbl' # coordsTbl) =>
             /\ call'.op \in {"add_coords", "add_coords_from_df"}
             /\ coordsTbl' = coordsTbl \cup Range(call'.values)]_vars

\* a batch of two rows was rejected for its second row; its first row, which
\* the table would have taken, is not stored
C5_Witness ==
    /\ call.op = "add_coords_from_df"
    /\ Len(call.values) = 2
    /\ outcome = "IntegrityError"
    /\ call.values[1].id \notin StoredIds
    /\ call.values[2].id \in StoredIds

DataInsert == call.op \in {"add_data", "add_data_from_df"}

\* C6: every stored observation's id is the id of a stored grid point; an
\* insert of an observation whose id is not stored raises an error (the
\* referential one when its values are storable), and the data table grows
\* only in a call that raised none.
C6_UnknownIdRejected ==
    /\ [](/\ \A i \in DOMAIN dataTbl : dataTbl[i].id \in StoredIds
          /\ (DataInsert /\ conn = "open"
                /\ \E i \in DOMAIN call.values : call.values[i].id \notin StoredIds)
                => /\ outcome # "ok"
                   /\ ~BadValue(call.values) => outcome = "IntegrityError")
    /\ [][(outcome' # "ok") => dataTbl' = dataTbl]_vars

\* a batch whose second row names an unknown grid point was rejected
C6_Witness ==
    /\ call.op = "add_data_from_df"
    /\ Len(call.values) = 2
    /\ call.values[1].id \in StoredIds
    /\ call.values[2].id \notin StoredIds
    /\ outcome = "IntegrityError"
    /\ dataTbl = <<>>

\* C10: once close() was called, every call of another method raises an error
\* and changes no stored row, and nothing is pending when close() is called.
C10_ClosedStoreFails ==
    /\ [][(conn = "closed" /\ call'.op # "close") =>
             /\ outcome' = "OperationalError"
             /\ coordsTbl' = coordsTbl
             /\ dataTbl' = dataTbl
             /\ ret' = <<>>]_vars
    /\ [][(conn = "open" /\ conn' = "closed") => tx = EmptyTx]_vars

\* an insert into the closed store was refused
C10_Witness ==
    /\ conn = "closed"
    /\ call.op = "add_data"
    /\ call.values[1].id \in StoredIds
    /\ outcome = "OperationalError"
    /\ coordsTbl # {}
    /\ dataTbl # <<>>

(***************************************************************************)
(* Properties of the scripts.                                              *)
(***************************************************************************)
Ingesting == script = "weatherlogging"

\* the last pass of the ingestion loop got a response and called add_data
Inserted == Ingesting /\ res # FetchFailed /\ call.op = "add_data"

\* C3: a numeric field the API's response omitted, or gave as something that
\* is no number, is handed to the INSERT as None (SQL NULL): not as a number,
\* not as NaN, not as a placeholder string.
C3_AbsentHandedAsNull ==
    Inserted =>
        \A k \in DOMAIN Fields :
            res[k].kind # "num" => FieldsOf(call.values[1])[k] = NoneV

\* a response without precip_mm went through get_data_from_api and add_data
C3_OmittedFieldInserted ==
    /\ Inserted
    /\ res[4] = Absent
    /\ FieldsOf(call.values[1])[4] = NullStr
    /\ outcome = "DataError"

Analysing == script = "data_analysis"

\* C7: when the resolver returned None, main does not fail with an unhandled
\* error, and it neither queries the observations of an id nor draws a map or
\* a graph.
C7_NoMatchHandled ==
    (Analysing /\ result = ReturnsNone) =>
        /\ pc # "crashed"
        /\ call.op # "get_data_from_id"
        /\ log = <<>>

\* C8: a run that ended, any way it ended, has called close() on the
\* connection it opened.
C8_ClosedAtEnd == (pc \in Terminal /\ conn # "none") => conn = "closed"

ErrorOf(id) == [ev |-> "error", arg |-> id]

\* C9: in the ingestion loop every row of coords is attempted once, in order;
\* a pass either commits one row for that grid point at the cycle's hour or
\* logs the failure, and in both cases the loop goes on; rows committed
\* earlier stay; the run never ends by an exception, and it ends closed after
\* the last row.
C9_LoopContinues ==
    /\ [](Ingesting =>
            /\ conn # "none" => pc # "crashed"
            /\ pc = "done" => (idx = Len(frame) + 1 /\ conn = "closed"))
    /\ [][(Ingesting /\ pc = "loop" /\ idx' # idx) =>
             /\ idx' = idx + 1
             /\ pc' = "loop"
             /\ \/ /\ log' = log
                   /\ Len(dataTbl') = Len(dataTbl) + 1
                   /\ dataTbl'[Len(dataTbl')].id = frame[idx].id
                   /\ dataTbl'[Len(dataTbl')].time = cycle_time
                \/ /\ log' = Append(log, ErrorOf(frame[idx].id))
                   /\ dataTbl' = dataTbl]_vars
    /\ [][SubSeq(dataTbl', 1, Len(dataTbl)) = dataTbl]_vars
    /\ (Ingesting /\ pc = "loop") ~> (pc = "done" /\ conn = "closed")

\* the first grid point's pass failed, the second one's row is stored, and the
\* run ended closed
C9_Witness ==
    /\ Ingesting
    /\ pc = "done"
    /\ conn = "closed"
    /\ Len(frame) = 2
    /\ log = <<ErrorOf(frame[1].id)>>
    /\ Len(dataTbl) = 1
    /\ dataTbl[1].id = frame[2].id

(***************************************************************************)
(* More properties of the store.                                           *)
(***************************************************************************)
\* the last call was get_coords_from_id on the open store
LookedUp == call.op = "get_coords_from_id" /\ conn = "open"

\* C11: a grid point an insert stored stays stored as it was inserted, and on
\* the open store get_coords_from_id(id) returns no error and exactly the one
\* row (id, lat, lon) of the grid point stored under id, or the empty frame
\* when no grid point was inserted under id.
C11_RoundTrip ==
    /\ [](LookedUp =>
            /\ outcome = "ok"
            /\ \A g \in coordsTbl :
                  g.id = call.values[1] =>
                     /\ Len(ret) = 1
                     /\ ret[1].id = g.id
                     /\ ret[1].lat = Num(g.lat)
                     /\ ret[1].lon = Num(g.lon)
            /\ call.values[1] \notin StoredIds => ret = <<>>)
    /\ [][/\ coordsTbl \subseteq coordsTbl'
          /\ (call'.op \in {"add_coords", "add_coords_from_df"} /\ outcome' = "ok")
                => Range(call'.values) \subseteq coordsTbl']_vars

\* two grid points are stored and the second one was looked up
C11_Witness ==
    /\ LookedUp
    /\ Cardinality(coordsTbl) = 2
    /\ \E g \in coordsTbl : g.id = call.values[1] /\ g.id = 1
    /\ Len(ret) = 1

\* an id no grid point was inserted under was looked up, beside a stored one
C11_WitnessUnknown ==
    /\ LookedUp
    /\ coordsTbl # {}
    /\ call.values[1] \notin StoredIds
    /\ ret = <<>>

(***************************************************************************)
(* More properties of the resolver.                                        *)
(***************************************************************************)
GridColumns == {"id", "lat", "lon", "lat_station", "lon_station"}

\* the grid a frame holds: its rows without the columns the resolver adds
GridOf(coords) ==
    [i \in DOMAIN coords |-> [c \in GridColumns |-> coords[i][c]]]

\* the frame carries the difference columns of an earlier call
Reused == \A i \in DOMAIN frame : "lat_diff" \in DOMAIN frame[i]

\* C12: the resolver leaves the grid of the frame as it was, and every call, on
\* a fresh frame or on one that carries the columns of earlier calls with
\* other query points, returns what a call on the fresh grid returns for the
\* same query point; a call repeated with the same query point returns the
\* same result.
C12_Deterministic ==
    /\ [](Called => result = ResolvedId(GridOf(frame), query[1], query[2]))
    /\ [][GridOf(frame') = GridOf(frame)]_vars
    /\ [][(Called /\ query' = query) => result' = result]_vars

\* a call on a reused frame: two rows tie on both minima, the first of them is
\* returned, and the frame's difference columns are those of this query point
C12_Witness ==
    /\ Called
    /\ Len(frame) = 2
    /\ Reused
    /\ InBoth(1) /\ InBoth(2)
    /\ result = RowResult(1)
    /\ \A i \in DOMAIN frame : frame[i].lat_diff = Num(LatDist(i))

(***************************************************************************)
(* More properties of the scripts.                                         *)
(***************************************************************************)
NoStationFile == Analysing /\ ~stationFile.exists

ExitDiagnostic == [ev |-> "exit", arg |-> 1]

\* C13: the analysis script run without the station file never runs the
\* resolver, queries no observations, draws no map and no graph and merges no
\* station table into the grid; it ends, after get_coords, by sys.exit with
\* the diagnostic.
C13_MissingStationsExit ==
    /\ [](NoStationFile =>
            /\ pc \in {"connect", "get_coords", "load_station", "exited"}
            /\ query = <<>> /\ result = NoResult
            /\ call.op \in {"none", "get_coords"}
            /\ \A i \in DOMAIN frame : "lat_station" \notin DOMAIN frame[i]
            /\ log = IF pc = "exited" THEN <<ExitDiagnostic>> ELSE <<>>)
    /\ NoStationFile ~> (pc = "exited")

\* the run read two grid points from the store and then exited
C13_Witness ==
    /\ NoStationFile
    /\ pc = "exited"
    /\ Len(frame) = 2
    /\ log = <<ExitDiagnostic>>

(***************************************************************************)
(* Properties of create_graph.                                             *)
(***************************************************************************)
\* the last call drew the rain series
RainDrawn ==
    /\ plotOutcome # "none"
    /\ plot # <<>>
    /\ plot[1].label = "99,999% of Original Data"

\* the rain value of row i lies above the quantile of the rain column
AboveQuantile(i) ==
    /\ IsNum(weatherdata[i].rain)
    /\ ~LessEq(weatherdata[i].rain, Quantile(Column(weatherdata, "rain")))

\* the bins of a rule the rows of the frame span
BinsOf(rule) ==
    BinOf(rule, weatherdata[1].time)..BinOf(rule, weatherdata[Len(weatherdata)].time)

\* the filtered rain values of the rows in a bin, by row
FilteredIn(rule, bin) ==
    LET F(r) == BinOf(rule, r.time) = bin /\ IsNum(r.rain_quantile)
        rows == SelectSeq(weatherdata, F)
    IN [i \in DOMAIN rows |-> rows[i].rain_quantile.v]

\* a line of the figure shows the mean or the median of the filtered values of
\* every bin
FromFiltered(line, rule, how) ==
    /\ {p.x : p \in Range(line.points)} = BinsOf(rule)
    /\ \A p \in Range(line.points) :
          LET xs == FilteredIn(rule, p.x)
          IN IF xs = <<>> THEN p.y = NaN
             ELSE IF how = "mean"
             THEN p.y.n = Sum(xs) /\ p.y.d = Len(xs)
             ELSE /\ 2 * Cardinality({i \in DOMAIN xs : xs[i] * p.y.d < p.y.n}) =< Len(xs)
                  /\ 2 * Cardinality({i \in DOMAIN xs : xs[i] * p.y.d > p.y.n}) =< Len(xs)
                  /\ \E i, j \in DOMAIN xs : p.y.n * 2 = (xs[i] + xs[j]) * p.y.d

\* C14: a call for the rain series leaves every row, its timestamp and its
\* rain value in the frame, sets rain_quantile to NaN exactly in the rows
\* whose rain value lies above the quantile (a missing value stays missing),
\* keeps every other value, draws the filtered values, and computes every
\* weekly or monthly line from the filtered values.
C14_FilterBeforeAggregation ==
    /\ [][(plot' # <<>> /\ plot'[1].label = "99,999% of Original Data") =>
             /\ Len(weatherdata') = Len(weatherdata)
             /\ \A i \in DOMAIN weatherdata :
                   /\ weatherdata'[i].time = weatherdata[i].time
                   /\ weatherdata'[i].rain = weatherdata[i].rain
                   /\ weatherdata'[i].wind = weatherdata[i].wind]_vars
    /\ [](RainDrawn =>
            /\ \A i \in DOMAIN weatherdata :
                  /\ weatherdata[i].rain_quantile =
                        IF AboveQuantile(i) THEN NaN ELSE weatherdata[i].rain
                  /\ plot[1].points[i] =
                        [x |-> weatherdata[i].time, y |-> weatherdata[i].rain_quantile]
            /\ Len(plot[1].points) = Len(weatherdata)
            /\ \A k \in 2..Len(plot) :
                  FromFiltered(plot[k],
                               IF plot[k].label \in {"Weekly Median", "Weekly Mean"}
                               THEN "W" ELSE "M",
                               IF plot[k].label \in {"Weekly Mean", "Monthly Mean"}
                               THEN "mean" ELSE "median"))

\* three rows in one month, two of them in one week; only the 500 was
\* filtered, and the weekly and monthly means were drawn without it
C14_Witness ==
    /\ RainDrawn
    /\ plotOutcome = "ok"
    /\ Len(weatherdata) = 3
    /\ weatherdata[1].time = 0 /\ weatherdata[2].time = 1 /\ weatherdata[3].time = 7
    /\ weatherdata[1].rain = Num(2)
    /\ weatherdata[2].rain = Num(500)
    /\ weatherdata[3].rain = Num(2)
    /\ weatherdata[2].rain_quantile = NaN
    /\ weatherdata[1].rain_quantile = Num(2)
    /\ Len(plot) = 3
    /\ plot[2].label = "Weekly Mean"
    /\ plot[2].points = <<[x |-> 0, y |-> Ratio(2, 1)], [x |-> 1, y |-> Ratio(2, 1)]>>
    /\ plot[3].label = "Monthly Mean"
    /\ plot[3].points = <<[x |-> 0, y |-> Ratio(4, 2)]>>

(***************************************************************************)
(* Properties of a collection cycle.                                       *)
(***************************************************************************)
\* the cycle's hour is computed
InCycle == Ingesting /\ pc \in {"loop", "done"}

\* the rows of table data this cycle wrote: those not of an earlier hour
WrittenNow == {i \in DOMAIN dataTbl : dataTbl[i].time \notin EarlierTimes}

\* C15: the cycle's time is a full hour, set in the one step before the loop
\* and never again; a pass of the loop makes no call or one add_data call, for
\* the grid point of its row and with the cycle's time, and the rows of coords
\* have ids of their own, so no grid point gets a second call; every row the
\* cycle wrote carries the cycle's time, at most one per grid point; and the
\* rows that were in the table stay as they were, in place.
C15_OneRowPerPointSameHour ==
    /\ [](InCycle =>
            /\ cycle_time % 60 = 0
            /\ \A i, j \in DOMAIN frame : frame[i].id = frame[j].id => i = j
            /\ \A i \in WrittenNow : dataTbl[i].time = cycle_time
            /\ \A i, j \in WrittenNow : dataTbl[i].id = dataTbl[j].id => i = j
            /\ Cardinality(WrittenNow) =< idx - 1)
    /\ [][InCycle => cycle_time' = cycle_time]_vars
    /\ [][(Ingesting /\ call' # call /\ call'.op = "add_data") =>
             /\ pc = "loop" /\ idx' = idx + 1
             /\ Len(call'.values) = 1
             /\ call'.values[1].id = frame[idx].id
             /\ call'.values[1].time = cycle_time]_vars
    /\ [][Ingesting =>
             /\ Len(dataTbl') >= Len(dataTbl)
             /\ \A i \in DOMAIN dataTbl : dataTbl'[i] = dataTbl[i]
             /\ coordsTbl' = coordsTbl]_vars

\* a finished cycle over two grid points: the row of an earlier hour is still
\* the first one, and each grid point got one row of this cycle's hour
C15_Witness ==
    /\ Ingesting
    /\ pc = "done"
    /\ Len(frame) = 2
    /\ Len(dataTbl) = 3
    /\ dataTbl[1].time \in EarlierTimes
    /\ dataTbl[2].id = frame[1].id /\ dataTbl[2].time = cycle_time
    /\ dataTbl[3].id = frame[2].id /\ dataTbl[3].time = cycle_time
    /\ cycle_time = 60

(***************************************************************************)
(* Properties of load_config.                                              *)
(***************************************************************************)
\* config.json was parsed and holds every key of config_default with a value
\* of the default's type (a string)
HoldsEveryKey(file) ==
    /\ file.state = "parsed"
    /\ file.value.json = "object"
    /\ \A key \in ConfigKeys :
          /\ key \in DOMAIN file.value.fields
          /\ file.value.fields[key].type = "str"

\* load_config has to return normally on this file
Usable(file) == HoldsEveryKey(file) /\ file.value # Object(config_default)

LoadConfigStep == Ingesting /\ pc = "load_config" /\ pc' # pc

\* C16: the script connects only with a usable config.json; load_config
\* returns normally exactly on a usable file and ends the process in every
\* other case; and it rewrites config.json with the placeholders exactly when
\* the file was missing, was no JSON text, or did not hold every key with a
\* string value, and leaves the file alone otherwise.
C16_ConfigGate ==
    /\ []((Ingesting /\ conn # "none") => Usable(configFile))
    /\ [][LoadConfigStep =>
             /\ (pc' = "connect") <=> Usable(configFile)
             /\ ~Usable(configFile) => pc' \in {"exited", "crashed"}
             /\ IF HoldsEveryKey(configFile)
                THEN configFile' = configFile
                ELSE configFile' = Parsed(Object(config_default))]_vars

\* the part of C16 that holds: a config.json that holds no JSON object ends
\* the run before the connect
C16_NumberEndsRun ==
    /\ Ingesting
    /\ configFile = Parsed(Number)
    /\ pc = "crashed"
    /\ conn = "none"

====
